---- MODULE Spec2Model ----
(***************************************************************************)
(* Bit-banged Serial, SPI and I2S drivers of bitbang-hal as state machines. *)
(* Every pin operation and every timer wait of a transfer is one step; the  *)
(* events a transfer performs are recorded, in order, in its trace.         *)
(* A pin level is 0 (low) or 1 (high).  A trace event is a pair             *)
(* <<kind, level>>; a timer wait is <<"wait", 0>>.                          *)
(***************************************************************************)
EXTENDS Integers, Sequences, FiniteSets, TLC

VARIABLES serial, spi, i2s, obs

vars == <<serial, spi, i2s, obs>>

Levels == {0, 1}

Bytes == 0 .. 255

\* bit i of x
BitAt(x, i) == (x \div (2 ^ i)) % 2

\* x << 1 on a u8: the bit shifted out of the top is lost
Shl8(x) == (x * 2) % 256

Reverse(s) == [i \in 1 .. Len(s) |-> s[Len(s) + 1 - i]]

\* the levels of the events of one kind, in the order they happened
RECURSIVE LevelsOf(_, _)
LevelsOf(trace, kind) ==
    IF trace = <<>> THEN <<>>
    ELSE IF Head(trace)[1] = kind
         THEN <<Head(trace)[2]>> \o LevelsOf(Tail(trace), kind)
         ELSE LevelsOf(Tail(trace), kind)

\* how many events of one kind
Count(trace, kind) == Len(LevelsOf(trace, kind))

(***************************************************************************)
(* Serial (src/src/serial.rs)                                              *)
(***************************************************************************)

\* number of data bits of a frame: the loops `for _bit in 0..8`
SerialBits == 8

\* polls of RX that see the idle (high) line before the frame arrives
MaxIdlePolls == 2

\* data bytes a peer may put on the RX line
PeerData == {0, 255, 165, 1, 128}

\* the byte d as 8 levels, d's bit 0 first
LsbFirstLevels(d) == [i \in 1 .. 8 |-> BitAt(d, i - 1)]

\* frames a peer presents on RX, one level per tick: the level seen where the
\* start bit belongs, 8 data levels, the level where the stop bit belongs
PeerWaves == { <<s>> \o LsbFirstLevels(d) \o <<p>> : s \in Levels, d \in PeerData, p \in Levels }

\* Serial::new: stores the pins and the timer, drives nothing
SerialNew(tx0) ==
    [pc |-> "idle", op |-> "none", tx |-> tx0, byte |-> 0, data_out |-> 0,
     data_in |-> 0, bit |-> 0, trace |-> <<>>, res |-> "none", val |-> 0,
     line |-> <<>>, loopback |-> FALSE, idle |-> 0, terr |-> FALSE]

\* the driver at rest in the specifications of the other drivers
SerialUnused == SerialNew(1)

\* tx.try_set_high()/try_set_low() followed by `?`: a failure ends the call
SerialSetTx(s, lvl, ok, next) ==
    IF ok
    THEN [s EXCEPT !.tx = lvl, !.trace = Append(@, <<"tx", lvl>>), !.pc = next]
    ELSE [s EXCEPT !.pc = "idle", !.res = "Bus"]

\* block!(self.timer.try_wait()).ok() in try_write: TX is held until the timer
\* answers; an error of the timer (ok false) is dropped by .ok().  terr is not a
\* field of the driver: it records that a wait of this call reported an error.
SerialWriteWait(s, ok, next) ==
    [s EXCEPT !.trace = Append(@, <<"wait", 0>>), !.line = Append(@, s.tx), !.pc = next,
              !.terr = @ \/ ~ok]

\* SerialOutBit taking the top bit of data_out
SerialOutBitMsb(data_out) == BitAt(data_out, 7)

\* the level try_write drives for the current data bit: data_out & 1
SerialOutBit(data_out) == data_out % 2

\* try_write(byte) is called
SerialWriteBegin ==
    /\ serial.pc = "idle"
    /\ \E b \in Bytes :
         serial' = [SerialNew(serial.tx) EXCEPT !.op = "write", !.pc = "w_start",
                                                !.byte = b, !.data_out = b]
    /\ UNCHANGED <<spi, i2s, obs>>

\* start bit
SerialWriteStartBit ==
    /\ serial.pc = "w_start"
    /\ \E ok \in BOOLEAN : serial' = SerialSetTx(serial, 0, ok, "w_start_wait")
    /\ UNCHANGED <<spi, i2s, obs>>

SerialWriteStartWait ==
    /\ serial.pc = "w_start_wait"
    /\ \E ok \in BOOLEAN :
         serial' = [SerialWriteWait(serial, ok, "w_bit") EXCEPT !.bit = 0]
    /\ UNCHANGED <<spi, i2s, obs>>

SerialWriteDataBit ==
    /\ serial.pc = "w_bit"
    /\ \E ok \in BOOLEAN :
         serial' = SerialSetTx(serial, SerialOutBit(serial.data_out), ok, "w_bit_wait")
    /\ UNCHANGED <<spi, i2s, obs>>

\* data_out >>= 1; wait; next iteration or leave the loop
SerialWriteDataWait ==
    /\ serial.pc = "w_bit_wait"
    /\ \E ok \in BOOLEAN :
         serial' = [SerialWriteWait(serial, ok,
                                    IF serial.bit + 1 < SerialBits THEN "w_bit" ELSE "w_stop")
                      EXCEPT !.data_out = serial.data_out \div 2, !.bit = serial.bit + 1]
    /\ UNCHANGED <<spi, i2s, obs>>

\* stop bit
SerialWriteStopBit ==
    /\ serial.pc = "w_stop"
    /\ \E ok \in BOOLEAN : serial' = SerialSetTx(serial, 1, ok, "w_stop_wait")
    /\ UNCHANGED <<spi, i2s, obs>>

SerialWriteStopWait ==
    /\ serial.pc = "w_stop_wait"
    /\ \E ok \in BOOLEAN :
         serial' = [SerialWriteWait(serial, ok, "idle") EXCEPT !.res = "Ok"]
    /\ UNCHANGED <<spi, i2s, obs>>

\* the level on RX now: high while the line idles before the frame, then the
\* frame's level for the tick the reader is in (one tick per wait so far)
SerialRxLevel(s) ==
    IF s.idle > 0 THEN 1
    ELSE LET t == Count(s.trace, "wait") + 1
         IN  IF t <= Len(s.line) THEN s.line[t] ELSE 1

\* block!(self.timer.try_wait()).ok() in try_read: an error of the timer is dropped
SerialReadWait(s, ok, next) ==
    [s EXCEPT !.trace = Append(@, <<"wait", 0>>), !.pc = next, !.terr = @ \/ ~ok]

\* an accumulator filled from the top: data_in >>= 1; if rx is high { data_in |= 0x80 }
SerialShiftInFromTop(data_in, lvl) == data_in \div 2 + 128 * lvl

\* data_in <<= 1; if rx is high { data_in |= 1 }
SerialShiftIn(data_in, lvl) == Shl8(data_in) + lvl

\* try_read() is called: RX carries either the frame the last write drove on TX
\* (TX wired to RX, the reader in step with the writer's ticks, which takes a
\* timer that reported no error) or a peer's frame
SerialReadBegin ==
    /\ serial.pc = "idle"
    /\ \E lb \in BOOLEAN, w \in PeerWaves, n \in 0 .. MaxIdlePolls :
         /\ lb => (serial.op = "write" /\ serial.res = "Ok" /\ ~serial.terr)
         /\ serial' = [SerialNew(serial.tx) EXCEPT
                          !.op = "read", !.pc = "r_poll", !.loopback = lb,
                          !.byte = IF lb THEN serial.byte ELSE 0,
                          !.line = IF lb THEN serial.line ELSE w,
                          !.idle = n]
    /\ UNCHANGED <<spi, i2s, obs>>

\* a poll loop that no level of RX ends
SerialPollAgainAlways(lvl) == TRUE

\* the condition of `while self.rx.try_is_high()? {}`: poll again while RX is high
SerialPollAgain(lvl) == lvl = 1

\* while self.rx.try_is_high()? {}: no timer wait between two polls.  A poll of
\* a line that stays high changes nothing: the loop spins in the same state.
SerialReadPoll ==
    /\ serial.pc = "r_poll"
    /\ \E ok \in BOOLEAN :
         LET lvl == SerialRxLevel(serial) IN
         serial' = IF ~ok THEN [serial EXCEPT !.pc = "idle", !.res = "Bus"]
                   ELSE IF SerialPollAgain(lvl) /\ serial.idle = 0 THEN serial
                   ELSE [serial EXCEPT !.trace = Append(@, <<"poll", lvl>>),
                                       !.idle = IF @ > 0 THEN @ - 1 ELSE 0,
                                       !.pc = IF SerialPollAgain(lvl) THEN "r_poll"
                                              ELSE "r_start_wait"]
    /\ UNCHANGED <<spi, i2s, obs>>

SerialReadStartWait ==
    /\ serial.pc = "r_start_wait"
    /\ \E ok \in BOOLEAN :
         serial' = [SerialReadWait(serial, ok, "r_bit") EXCEPT !.bit = 0]
    /\ UNCHANGED <<spi, i2s, obs>>

SerialReadSample ==
    /\ serial.pc = "r_bit"
    /\ \E ok \in BOOLEAN :
         LET lvl == SerialRxLevel(serial) IN
         serial' = IF ~ok THEN [serial EXCEPT !.pc = "idle", !.res = "Bus"]
                   ELSE [serial EXCEPT !.trace = Append(@, <<"rx", lvl>>),
                                       !.data_in = SerialShiftIn(serial.data_in, lvl),
                                       !.pc = "r_bit_wait"]
    /\ UNCHANGED <<spi, i2s, obs>>

SerialReadSampleWait ==
    /\ serial.pc = "r_bit_wait"
    /\ \E ok \in BOOLEAN :
         serial' = [SerialReadWait(serial, ok,
                                   IF serial.bit + 1 < SerialBits THEN "r_bit" ELSE "r_stop_wait")
                      EXCEPT !.bit = serial.bit + 1]
    /\ UNCHANGED <<spi, i2s, obs>>

\* wait for the stop bit to pass, then Ok(data_in)
SerialReadStopWait ==
    /\ serial.pc = "r_stop_wait"
    /\ \E ok \in BOOLEAN :
         serial' = [SerialReadWait(serial, ok, "idle") EXCEPT !.res = "Ok", !.val = serial.data_in]
    /\ UNCHANGED <<spi, i2s, obs>>

(***************************************************************************)
(* SPI (src/src/spi.rs)                                                    *)
(***************************************************************************)

\* the four modes of embedded_hal::spi, matched by try_send
Modes == {"MODE_0", "MODE_1", "MODE_2", "MODE_3"}

BitOrders == {"MSBFirst", "LSBFirst"}

\* number of bits of a frame: the loop `for bit in 0..8`
SpiBits == 8

\* pin operations that may fail in the sends of one run
MaxPinErrors == 1

\* bytes handed to try_send
SendBytes == {166, 1}

\* the byte d as 8 levels, d's bit 7 first
MsbFirstLevels(d) == [i \in 1 .. 8 |-> BitAt(d, 8 - i)]

\* what the peer puts on MISO during one send: the level at each of the 8 samples
MisoWaves == { MsbFirstLevels(d) : d \in {255, 178} }

\* mode.polarity: the clock's idle level (IdleLow in modes 0 and 1, IdleHigh in 2 and 3)
IdleLevel(mode) == IF mode \in {"MODE_2", "MODE_3"} THEN 1 ELSE 0

\* SPI::new: read_val None, bit order MSBFirst, the clock driven to its idle
\* level; a failure of that pin write is dropped by unwrap_or(())
SPINew(mode, sck0, mosi0, ok) ==
    [pc |-> "idle", op |-> "none", mode |-> mode, bit_order |-> "MSBFirst",
     read_val |-> <<>>, sck |-> IF ok THEN IdleLevel(mode) ELSE sck0, mosi |-> mosi0,
     new_ok |-> ok, byte |-> 0, bit |-> 0, step |-> 0, miso |-> <<>>, trace |-> <<>>,
     res |-> "none", rd |-> "none", rdval |-> 0, errs |-> 0, terr |-> FALSE,
     done |-> FALSE, send_order |-> "MSBFirst", msb_sent |-> <<>>]

\* the driver at rest in the specifications of the other drivers
SPIUnused == SPINew("MODE_0", 0, 0, TRUE)

\* ModeArm with the MODE_1 arm sampling on the leading edge like MODE_0
ModeArmSamePhase(mode) ==
    CASE mode = "MODE_0" -> <<"wait", "sck_high", "read_bit", "wait", "sck_low">>
      [] mode = "MODE_1" -> <<"wait", "sck_high", "read_bit", "wait", "sck_low">>
      [] mode = "MODE_2" -> <<"wait", "sck_low", "read_bit", "wait", "sck_high">>
      [] mode = "MODE_3" -> <<"sck_low", "wait", "read_bit", "sck_high", "wait">>

\* ModeArm with the MODE_3 arm sampling after the trailing edge
ModeArmLateSample(mode) ==
    CASE mode = "MODE_0" -> <<"wait", "sck_high", "read_bit", "wait", "sck_low">>
      [] mode = "MODE_1" -> <<"sck_high", "wait", "read_bit", "sck_low", "wait">>
      [] mode = "MODE_2" -> <<"wait", "sck_low", "read_bit", "wait", "sck_high">>
      [] mode = "MODE_3" -> <<"sck_low", "wait", "sck_high", "read_bit", "wait">>

\* the arms of `match self.mode` in try_send: what follows the MOSI write of a bit
ModeArm(mode) ==
    CASE mode = "MODE_0" -> <<"wait", "sck_high", "read_bit", "wait", "sck_low">>
      [] mode = "MODE_1" -> <<"sck_high", "wait", "read_bit", "sck_low", "wait">>
      [] mode = "MODE_2" -> <<"wait", "sck_low", "read_bit", "wait", "sck_high">>
      [] mode = "MODE_3" -> <<"sck_low", "wait", "read_bit", "sck_high", "wait">>

\* OutBit with the LSBFirst arm counting from bit 1
OutBitLsbOffByOne(bit_order, byte, bit) ==
    IF bit_order = "MSBFirst" THEN BitAt(byte, 7 - bit) ELSE BitAt(byte, (bit + 1) % 8)

\* out_bit: the bit of byte sent in iteration bit
OutBit(bit_order, byte, bit) ==
    IF bit_order = "MSBFirst" THEN BitAt(byte, 7 - bit) ELSE BitAt(byte, bit)

\* ReadBitValue in an accumulator wider than 8 bits: nothing is shifted out
ReadBitValueWide(read_val, lvl) ==
    <<(IF read_val = <<>> THEN 0 ELSE read_val[1]) * 2 + lvl>>

\* read_val.unwrap_or(0) << 1, or-ed with the sampled level, in a u8
ReadBitValue(read_val, lvl) ==
    <<Shl8(IF read_val = <<>> THEN 0 ELSE read_val[1]) + lvl>>

\* a failed pin operation that does not end try_send: the statement is run again
SPIFailRetry(s) == [s EXCEPT !.errs = @ + 1]

\* a pin operation failed: `?` returns Err(Bus) from try_send at once
SPIFail(s) == [s EXCEPT !.pc = "idle", !.res = "Bus", !.errs = @ + 1]

\* after a statement of the arm: the next statement, the next bit, or Ok(()).
\* done, send_order and msb_sent are not fields of the driver: done records that
\* some send has returned Ok, send_order the bit order the last send began
\* under, msb_sent the byte and the MOSI levels of the last send that returned
\* Ok under MSBFirst.
SPIAdvance(s) ==
    IF s.step < Len(ModeArm(s.mode)) THEN [s EXCEPT !.step = @ + 1]
    ELSE IF s.bit + 1 < SpiBits THEN [s EXCEPT !.pc = "mosi", !.step = 0, !.bit = @ + 1]
    ELSE [s EXCEPT !.pc = "idle", !.step = 0, !.bit = @ + 1, !.res = "Ok", !.done = TRUE,
                   !.msb_sent = IF s.bit_order = "MSBFirst"
                                THEN <<s.byte, LevelsOf(s.trace, "mosi")>> ELSE @]

\* the statement of the arm the send is at
SPIStatement(s) == IF s.pc = "arm" THEN ModeArm(s.mode)[s.step] ELSE "none"

\* a set_bit_order that also forgets the byte received
SPISetBitOrderResets ==
    /\ spi.pc = "idle"
    /\ \E order \in BitOrders : spi' = [spi EXCEPT !.bit_order = order, !.read_val = <<>>]
    /\ UNCHANGED <<serial, i2s, obs>>

\* set_bit_order(order)
SPISetBitOrder ==
    /\ spi.pc = "idle"
    /\ \E order \in BitOrders : spi' = [spi EXCEPT !.bit_order = order]
    /\ UNCHANGED <<serial, i2s, obs>>

\* try_read(): the captured byte or NoData; read_val is left as it is
SPIRead ==
    /\ spi.pc = "idle"
    /\ spi' = [spi EXCEPT !.rd = IF spi.read_val = <<>> THEN "NoData" ELSE "Ok",
                          !.rdval = IF spi.read_val = <<>> THEN 0 ELSE spi.read_val[1]]
    /\ UNCHANGED <<serial, i2s, obs>>

\* try_send(byte) is called; the peer will present the levels of wave on MISO
SPISendBegin ==
    /\ spi.pc = "idle"
    /\ \E b \in SendBytes, wave \in MisoWaves :
         spi' = [spi EXCEPT !.pc = "mosi", !.op = "send", !.byte = b, !.bit = 0,
                            !.step = 0, !.miso = wave, !.trace = <<>>, !.res = "none",
                            !.rd = "none", !.rdval = 0, !.send_order = spi.bit_order,
                            !.terr = FALSE]
    /\ UNCHANGED <<serial, i2s, obs>>

\* mosi.try_set_high()/try_set_low() for out_bit
SPISetMosi ==
    /\ spi.pc = "mosi"
    /\ \E ok \in BOOLEAN :
         /\ ~ok => spi.errs < MaxPinErrors
         /\ LET lvl == OutBit(spi.bit_order, spi.byte, spi.bit) IN
            spi' = IF ok
                   THEN [spi EXCEPT !.mosi = lvl, !.trace = Append(@, <<"mosi", lvl>>),
                                    !.pc = "arm", !.step = 1]
                   ELSE SPIFail(spi)
    /\ UNCHANGED <<serial, i2s, obs>>

\* a wait whose error ends try_send with Err(Bus), as `?` would
SPIWaitDoneFatal(s, ok) ==
    IF ok THEN SPIAdvance([s EXCEPT !.trace = Append(@, <<"wait", 0>>)])
    ELSE [s EXCEPT !.pc = "idle", !.res = "Bus", !.terr = TRUE]

\* block!(self.timer.try_wait()).ok(): an error of the timer (ok false) is
\* dropped by .ok().  terr is not a field of the driver: it records that a wait
\* of this send reported an error.
SPIWaitDone(s, ok) ==
    SPIAdvance([s EXCEPT !.trace = Append(@, <<"wait", 0>>), !.terr = @ \/ ~ok])

SPIWait ==
    /\ SPIStatement(spi) = "wait"
    /\ \E ok \in BOOLEAN : spi' = SPIWaitDone(spi, ok)
    /\ UNCHANGED <<serial, i2s, obs>>

\* sck.try_set_high()/try_set_low()
SPISetSck ==
    /\ SPIStatement(spi) \in {"sck_high", "sck_low"}
    /\ \E ok \in BOOLEAN :
         /\ ~ok => spi.errs < MaxPinErrors
         /\ LET lvl == IF SPIStatement(spi) = "sck_high" THEN 1 ELSE 0 IN
            spi' = IF ok
                   THEN SPIAdvance([spi EXCEPT !.sck = lvl, !.trace = Append(@, <<"sck", lvl>>)])
                   ELSE SPIFail(spi)
    /\ UNCHANGED <<serial, i2s, obs>>

\* read_bit(): sample MISO and shift the level into read_val
SPIReadBit ==
    /\ SPIStatement(spi) = "read_bit"
    /\ \E ok \in BOOLEAN :
         /\ ~ok => spi.errs < MaxPinErrors
         /\ LET lvl == spi.miso[spi.bit + 1] IN
            spi' = IF ok
                   THEN SPIAdvance([spi EXCEPT !.read_val = ReadBitValue(spi.read_val, lvl),
                                               !.trace = Append(@, <<"miso", lvl>>)])
                   ELSE SPIFail(spi)
    /\ UNCHANGED <<serial, i2s, obs>>

SPIInit ==
    /\ \E mode \in Modes, sck0 \in Levels, mosi0 \in Levels, ok \in BOOLEAN :
         spi = SPINew(mode, sck0, mosi0, ok)

SPINext ==
    \/ SPISetBitOrder
    \/ SPIRead
    \/ SPISendBegin
    \/ SPISetMosi
    \/ SPIWait
    \/ SPISetSck
    \/ SPIReadBit

SerialInit ==
    /\ \E tx0 \in Levels : serial = SerialNew(tx0)

SerialNext ==
    \/ SerialWriteBegin
    \/ SerialWriteStartBit
    \/ SerialWriteStartWait
    \/ SerialWriteDataBit
    \/ SerialWriteDataWait
    \/ SerialWriteStopBit
    \/ SerialWriteStopWait
    \/ SerialReadBegin
    \/ SerialReadPoll
    \/ SerialReadStartWait
    \/ SerialReadSample
    \/ SerialReadSampleWait
    \/ SerialReadStopWait

(***************************************************************************)
(* I2S (src/src/i2s.rs)                                                    *)
(***************************************************************************)

I2SModes == {"I2s", "LeftJustified"}

\* the widths impl_i2s_write! is instantiated for: i8, i16, i32
BitCounts == {8, 16, 32}

\* frames a slice handed to try_write may hold
MaxFrames == 2

\* calls of next() followed after a stream is exhausted
MaxExtraCalls == 2

\* A raw word (the unsigned bit pattern of an i8, i16 or i32) is written as its
\* two 16-bit halves <<high, low>>, since a u32 does not fit the 32-bit signed
\* integers of TLC; the high half of an 8-bit or 16-bit word is 0.

\* (word >> k) & 1
WordBit(word, k) == IF k >= 16 THEN BitAt(word[1], k - 16) ELSE BitAt(word[2], k)

\* raw words handed to try_write: 0xAB, 0xCD; 0xABCD, 0x1234; 0xABCDEF01, 1
I2SWords(bit_count) ==
    CASE bit_count = 8  -> {<<0, 171>>, <<0, 205>>}
      [] bit_count = 16 -> {<<0, 43981>>, <<0, 4660>>}
      [] bit_count = 32 -> {<<43981, 61185>>, <<0, 1>>}

\* the slices (or iterators) handed to try_write for one word type: up to
\* MaxFrames words, neighbouring words different so that the place of a word in
\* its input shows in what is sent
I2SInputs(bit_count) ==
    { ws \in UNION { [1 .. len -> I2SWords(bit_count)] : len \in 0 .. MaxFrames } :
        \A k \in 1 .. Len(ws) - 1 : ws[k] # ws[k + 1] }

\* OutBitStream::new
OBSNew(word, bit_count) == [word |-> word, bit_offset |-> 0, bit_count |-> bit_count]

\* OutBitStream::next handing the bits out from bit 0 up
OBSNextLsbFirst(o) ==
    IF o.bit_offset = o.bit_count
    THEN [obs |-> o, item |-> <<>>]
    ELSE [obs |-> [o EXCEPT !.bit_offset = @ + 1], item |-> <<WordBit(o.word, o.bit_offset)>>]

\* OutBitStream::next with a cursor that counts the calls made after the end too
OBSNextCountsOn(o) ==
    IF o.bit_offset >= o.bit_count
    THEN [obs |-> [o EXCEPT !.bit_offset = @ + 1], item |-> <<>>]
    ELSE [obs |-> [o EXCEPT !.bit_offset = @ + 1],
          item |-> <<WordBit(o.word, o.bit_count - (o.bit_offset + 1))>>]

\* OutBitStream::next: the stream after the call and the item returned, <<>>
\* for None and <<b>> for Some(b)
OBSNext(o) ==
    IF o.bit_offset = o.bit_count
    THEN [obs |-> o, item |-> <<>>]
    ELSE LET off == o.bit_offset + 1
         IN  [obs |-> [o EXCEPT !.bit_offset = off],
              item |-> <<WordBit(o.word, o.bit_count - off)>>]

\* Option::unwrap_or(false)
UnwrapOrFalse(item) == IF item = <<>> THEN 0 ELSE item[1]

\* I2s::new: stores the mode, the pins and the timer, drives nothing
I2SNew(mode, sck0, ws0, sd0) ==
    [pc |-> "idle", sub |-> "none", mode |-> mode, sck |-> sck0, ws |-> ws0, sd |-> sd0,
     bit_count |-> 8, left_words |-> <<>>, right_words |-> <<>>, llen |-> 0, rlen |-> 0,
     frame |-> 0,
     left |-> OBSNew(<<0, 0>>, 8), right |-> OBSNew(<<0, 0>>, 8), i |-> 0, bit |-> 0,
     ws_start |-> ws0, trace |-> <<>>, res |-> "none"]

\* the driver at rest in the specifications of the other drivers
I2SUnused == I2SNew("I2s", 0, 0, 0)

\* the bound of the loops over a word's bits, `bit_count - 1` in every mode
I2SLoopLimitShort(mode, bit_count) == bit_count - 1

\* the bound of the loops over a word's bits, `bit_count` in every mode
I2SLoopLimitFull(mode, bit_count) == bit_count

\* the bound of the loops over a word's bits: `0..(bit_count - 1)` in Mode::I2s,
\* `0..bit_count` in Mode::LeftJustified
I2SLoopLimit(mode, bit_count) == IF mode = "I2s" THEN bit_count - 1 ELSE bit_count

\* a pin operation failed: `?` returns Err(Pin) from try_write at once
I2SFail(s) == [s EXCEPT !.pc = "idle", !.sub = "none", !.res = "Pin"]

\* try_write_words returns Ok(()): the zip of try_write takes the next pair
I2SFrameDone(s) == [s EXCEPT !.pc = "zip", !.sub = "none", !.frame = @ + 1]

\* where try_write_words continues after try_write_bit has returned Ok
I2SAfterBit(s) ==
    LET more == s.i + 1 < I2SLoopLimit(s.mode, s.bit_count)
        t    == [s EXCEPT !.sub = "none", !.i = IF more THEN s.i + 1 ELSE 0]
    IN  CASE s.pc = "left"       -> IF more THEN t ELSE [t EXCEPT !.pc = "ws_high"]
          [] s.pc = "left_last"  -> [t EXCEPT !.pc = "right", !.i = 0]
          [] s.pc = "right"      -> IF more THEN t
                                    ELSE IF s.mode = "I2s" THEN [t EXCEPT !.pc = "ws_low2"]
                                    ELSE I2SFrameDone(t)
          [] s.pc = "right_last" -> I2SFrameDone([t EXCEPT !.i = 0])

\* try_write(left_words, right_words) is called for one of the word types
I2SWriteBegin ==
    /\ i2s.pc = "idle"
    /\ \E n \in BitCounts :
         \E lws \in I2SInputs(n), rws \in I2SInputs(n) :
           i2s' = [I2SNew(i2s.mode, i2s.sck, i2s.ws, i2s.sd) EXCEPT
                      !.pc = "zip", !.bit_count = n, !.left_words = lws, !.right_words = rws,
                      !.llen = Len(lws), !.rlen = Len(rws)]
    /\ UNCHANGED <<serial, spi, obs>>

\* a zip that hands out the first pair again and again
I2SPairFirst(s) == <<s.left_words[1], s.right_words[1]>>

\* the pair the zip hands out after `frame` pairs: the next word of either input
I2SPair(s) == <<s.left_words[s.frame + 1], s.right_words[s.frame + 1]>>

\* the zip of the two inputs: the next pair of words, handed to try_write_words,
\* or Ok(()) when either input is exhausted
I2SZip ==
    /\ i2s.pc = "zip"
    /\ IF i2s.frame < i2s.llen /\ i2s.frame < i2s.rlen
       THEN LET pair == I2SPair(i2s)
            IN  i2s' = [i2s EXCEPT !.pc = "ws_low", !.left = OBSNew(pair[1], i2s.bit_count),
                                   !.right = OBSNew(pair[2], i2s.bit_count), !.i = 0,
                                   !.ws_start = i2s.ws, !.trace = <<>>]
       ELSE i2s' = [i2s EXCEPT !.pc = "idle", !.res = "Ok"]
    /\ UNCHANGED <<serial, spi, obs>>

\* set_ws_low()? / set_ws_high()?
I2SSetWs ==
    /\ i2s.pc \in {"ws_low", "ws_high", "ws_low2"}
    /\ \E ok \in BOOLEAN :
         /\ LET lvl  == IF i2s.pc = "ws_high" THEN 1 ELSE 0
                next == CASE i2s.pc = "ws_low"  -> "left"
                          [] i2s.pc = "ws_high" -> IF i2s.mode = "I2s" THEN "left_last" ELSE "right"
                          [] i2s.pc = "ws_low2" -> "right_last"
            IN  i2s' = IF ok
                       THEN [i2s EXCEPT !.ws = lvl, !.trace = Append(@, <<"ws", lvl>>),
                                        !.pc = next, !.i = 0]
                       ELSE I2SFail(i2s)
    /\ UNCHANGED <<serial, spi, obs>>

\* left.next() / right.next() and the call of try_write_bit with the bit; in the
\* loop over the left word a None returns Ok(()) from try_write_words
I2SNextBit ==
    /\ i2s.pc \in {"left", "left_last", "right", "right_last"}
    /\ i2s.sub = "none"
    /\ LET isleft == i2s.pc \in {"left", "left_last"}
           r      == OBSNext(IF isleft THEN i2s.left ELSE i2s.right)
       IN  i2s' = IF i2s.pc = "left" /\ r.item = <<>>
                  THEN I2SFrameDone(i2s)
                  ELSE [i2s EXCEPT !.left = IF isleft THEN r.obs ELSE @,
                                   !.right = IF isleft THEN @ ELSE r.obs,
                                   !.bit = UnwrapOrFalse(r.item), !.sub = "sd"]
    /\ UNCHANGED <<serial, spi, obs>>

\* try_write_bit: sd.set_high()? / sd.set_low()?
I2SSetSd ==
    /\ i2s.sub = "sd"
    /\ \E ok \in BOOLEAN :
         /\ i2s' = IF ok
                   THEN [i2s EXCEPT !.sd = i2s.bit, !.trace = Append(@, <<"sd", i2s.bit>>),
                                    !.sub = "wait1"]
                   ELSE I2SFail(i2s)
    /\ UNCHANGED <<serial, spi, obs>>

\* try_write_bit with the clock never raised: either wait is followed by
\* sck.set_low()
I2SAfterWaitNoHigh(sub) == "sck_low"

\* the statement of try_write_bit after a wait_clk(): sck.set_high()? after the
\* first, sck.set_low() after the second
I2SAfterWait(sub) == IF sub = "wait1" THEN "sck_high" ELSE "sck_low"

\* wait_clk(): block!(self.timer.wait()).unwrap() panics on an error of the
\* timer (ok false); nothing of the driver runs after the panic
I2SWaitDone(s, ok) ==
    IF ok
    THEN [s EXCEPT !.trace = Append(@, <<"wait", 0>>), !.sub = I2SAfterWait(s.sub)]
    ELSE [s EXCEPT !.pc = "panic", !.sub = "none"]

\* try_write_bit: wait_clk()
I2SWait ==
    /\ i2s.sub \in {"wait1", "wait2"}
    /\ \E ok \in BOOLEAN : i2s' = I2SWaitDone(i2s, ok)
    /\ UNCHANGED <<serial, spi, obs>>

\* try_write_bit: sck.set_high()? and, as its last statement, sck.set_low()
I2SSetSck ==
    /\ i2s.sub \in {"sck_high", "sck_low"}
    /\ \E ok \in BOOLEAN :
         /\ LET lvl == IF i2s.sub = "sck_high" THEN 1 ELSE 0
                t   == [i2s EXCEPT !.sck = lvl, !.trace = Append(@, <<"sck", lvl>>)]
            IN  i2s' = IF ~ok THEN I2SFail(i2s)
                       ELSE IF lvl = 1 THEN [t EXCEPT !.sub = "wait2"]
                       ELSE I2SAfterBit(t)
    /\ UNCHANGED <<serial, spi, obs>>

I2SInit ==
    /\ \E mode \in I2SModes, sck0 \in Levels, ws0 \in Levels, sd0 \in Levels :
         i2s = I2SNew(mode, sck0, ws0, sd0)

I2SNext ==
    \/ I2SWriteBegin
    \/ I2SZip
    \/ I2SSetWs
    \/ I2SNextBit
    \/ I2SSetSd
    \/ I2SWait
    \/ I2SSetSck

(***************************************************************************)
(* OutBitStream on its own (src/src/i2s.rs)                                *)
(***************************************************************************)

\* words streamed: every 8-bit word, and for 16 and 32 bits the words of the
\* tests, the extremes and single bits
StreamWords(bit_count) ==
    CASE bit_count = 8  -> { <<0, w>> : w \in 0 .. 255 }
      [] bit_count = 16 -> { <<0, w>> : w \in {0, 1, 4660, 32768, 43981, 65535} }
      [] bit_count = 32 -> { <<h, l>> : h \in {0, 32768, 43981, 65535},
                                        l \in {0, 1, 61185, 65535} }

\* a stream as constructed, and the items its next() has returned so far
OBSInit ==
    /\ \E n \in BitCounts : \E w \in StreamWords(n) :
         obs = [s |-> OBSNew(w, n), out |-> <<>>]

\* next() is called
OBSCallNext ==
    /\ Len(obs.out) < obs.s.bit_count + MaxExtraCalls
    /\ LET r == OBSNext(obs.s)
       IN  obs' = [s |-> r.obs, out |-> Append(obs.out, r.item)]
    /\ UNCHANGED <<serial, spi, i2s>>

\* the stream at rest in the specifications of the drivers
OBSUnused == [s |-> OBSNew(<<0, 0>>, 8), out |-> <<>>]

(***************************************************************************)
(* Specifications: one per driver, the other drivers at rest               *)
(***************************************************************************)

InitSerial == SerialInit /\ spi = SPIUnused /\ i2s = I2SUnused /\ obs = OBSUnused

SpecSerial == InitSerial /\ [][SerialNext]_vars

InitSPI == SPIInit /\ serial = SerialUnused /\ i2s = I2SUnused /\ obs = OBSUnused

SpecSPI == InitSPI /\ [][SPINext]_vars

InitI2S == I2SInit /\ serial = SerialUnused /\ spi = SPIUnused /\ obs = OBSUnused

SpecI2S == InitI2S /\ [][I2SNext]_vars

InitOBS == OBSInit /\ serial = SerialUnused /\ spi = SPIUnused /\ i2s = I2SUnused

SpecOBS == InitOBS /\ [][OBSCallNext]_vars

\* The four share no state, and a run of a program built on the crate is
\* followed through one of them: the union of the four specifications, in which
\* the first step taken decides which of them the behaviour exercises.

InitAll == InitSerial \/ InitSPI \/ InitI2S \/ InitOBS

NextAll ==
    \/ spi = SPIUnused /\ i2s = I2SUnused /\ obs = OBSUnused /\ SerialNext
    \/ serial = SerialUnused /\ i2s = I2SUnused /\ obs = OBSUnused /\ SPINext
    \/ serial = SerialUnused /\ spi = SPIUnused /\ obs = OBSUnused /\ I2SNext
    \/ serial = SerialUnused /\ spi = SPIUnused /\ i2s = I2SUnused /\ OBSCallNext

SpecAll == InitAll /\ [][NextAll]_vars

\* a call of a driver is under way
Running == serial.pc # "idle" \/ spi.pc # "idle" \/ i2s.pc \notin {"idle", "panic"}

\* the call under way runs its next statement, no pin operation and no timer
\* wait reporting an error
CallStep ==
    /\ Running
    /\ NextAll
    /\ serial'.res # "Bus" /\ spi'.res # "Bus" /\ i2s'.res # "Pin" /\ i2s'.pc # "panic"

\* The drivers run on one thread, with every call blocking: a call that has a
\* statement to run runs it, and a timer that keeps ticking ends every wait.
\* Nothing makes a pin or the timer fail.
FairSpecAll == SpecAll /\ WF_vars(CallStep)

(***************************************************************************)
(* Properties                                                              *)
(***************************************************************************)

\* a sequence of 8 levels as a byte, the first level in bit 7
ByteOfLevels(l) ==
    l[1] * 128 + l[2] * 64 + l[3] * 32 + l[4] * 16 + l[5] * 8 + l[6] * 4 + l[7] * 2 + l[8]

SerialWriteOk == serial.pc = "idle" /\ serial.op = "write" /\ serial.res = "Ok"

SerialReadOk == serial.pc = "idle" /\ serial.op = "read" /\ serial.res = "Ok"

SPISendOk == spi.pc = "idle" /\ spi.op = "send" /\ spi.res = "Ok"

\* a frame of the current I2S write has been sent whole, and nothing of the next
\* frame yet
I2SFrameComplete ==
    /\ i2s.frame >= 1
    /\ i2s.pc = "zip" \/ (i2s.pc = "idle" /\ i2s.res = "Ok")

\* bits clocked out before event k of the frame: a bit is out when its clock
\* pulse has ended
BitsBefore(k) == Cardinality({ j \in 1 .. k - 1 : i2s.trace[j] = <<"sck", 0>> })

\* the level of word-select before event k of the frame
WsBefore(k) ==
    LET prior == { j \in 1 .. k - 1 : i2s.trace[j][1] = "ws" }
    IN  IF prior = {} THEN i2s.ws_start
        ELSE i2s.trace[CHOOSE j \in prior : \A h \in prior : h <= j][2]

\* the events of the frame at which word-select changes to lvl
WsEdges(lvl) ==
    { k \in 1 .. Len(i2s.trace) : i2s.trace[k] = <<"ws", lvl>> /\ WsBefore(k) # lvl }

\* C1: when the ten levels write(b) drove on TX are presented to RX, one per
\* tick, read returns Ok(b).
C1_RoundTrip ==
    (SerialReadOk /\ serial.loopback /\ ~serial.terr) => serial.val = serial.byte

\* C2: while no send has returned Ok, read returns Err(NoData).
C2_NoDataUntilSendCompletes ==
    (spi.rd # "none" /\ ~spi.done) => spi.rd = "NoData"

\* C3: a read after a send that returned Ok returns Ok(r), r being the 8 levels
\* sampled on MISO during that send, the first in bit 7: nothing sampled by an
\* earlier send is left in r, and the read leaves the captured byte in place,
\* so that the next read returns r again.
C3_ReadLastSend ==
    (spi.rd # "none" /\ SPISendOk) =>
        /\ spi.rd = "Ok"
        /\ Len(LevelsOf(spi.trace, "miso")) = 8
        /\ spi.rdval = ByteOfLevels(LevelsOf(spi.trace, "miso"))
        /\ spi.read_val = <<spi.rdval>>

\* C3 witness: mode 0 has sent 0xA6 with MISO high throughout, after an earlier
\* send that was aborted, and read has returned Ok(0xFF)
C3_Witness ==
    /\ SPISendOk /\ spi.mode = "MODE_0" /\ spi.byte = 166 /\ spi.errs = 1
    /\ spi.miso = <<1, 1, 1, 1, 1, 1, 1, 1>>
    /\ spi.rd = "Ok" /\ spi.rdval = 255

\* the order the claim gives for what follows the MOSI write of a bit
C7_Order(mode) ==
    CASE mode = "MODE_0" -> <<"wait", "clock high", "sample", "wait", "clock low">>
      [] mode = "MODE_1" -> <<"clock high", "wait", "sample", "clock low", "wait">>
      [] mode = "MODE_2" -> <<"wait", "clock low", "sample", "wait", "clock high">>
      [] mode = "MODE_3" -> <<"clock low", "wait", "sample", "clock high", "wait">>

C7_Kind(e) ==
    CASE e[1] = "sck"  -> IF e[2] = 1 THEN "clock high" ELSE "clock low"
      [] e[1] = "miso" -> "sample"
      [] OTHER         -> e[1]

\* C4, as claimed: in every frame sent in Mode::I2s word-select goes high exactly
\* once, after N-1 bits of the left word, and low exactly once, after N-1 bits of
\* the right word.
C4_StandardFramingEveryFrame ==
    (i2s.mode = "I2s" /\ I2SFrameComplete) =>
        /\ Cardinality(WsEdges(1)) = 1
        /\ \A k \in WsEdges(1) : BitsBefore(k) = i2s.bit_count - 1
        /\ Cardinality(WsEdges(0)) = 1
        /\ \A k \in WsEdges(0) : BitsBefore(k) = 2 * i2s.bit_count - 1

\* C4, amended: the above holds of every frame that begins with word-select low;
\* in a frame that begins with word-select high (the level before the driver's
\* first frame is not the driver's), word-select also goes low before the first
\* bit of the left word, and so goes low twice.
C4_StandardFraming ==
    (i2s.mode = "I2s" /\ I2SFrameComplete) =>
        /\ Cardinality(WsEdges(1)) = 1
        /\ \A k \in WsEdges(1) : BitsBefore(k) = i2s.bit_count - 1
        /\ BitsBefore(Len(i2s.trace) + 1) = 2 * i2s.bit_count
        /\ i2s.ws_start = 0 =>
              /\ Cardinality(WsEdges(0)) = 1
              /\ \A k \in WsEdges(0) : BitsBefore(k) = 2 * i2s.bit_count - 1
        /\ i2s.ws_start = 1 =>
              { BitsBefore(k) : k \in WsEdges(0) } = {0, 2 * i2s.bit_count - 1}

\* C4 witness: the second frame of a write in Mode::I2s, 0xAB left and 0xCD right
C4_Witness ==
    /\ i2s.mode = "I2s" /\ I2SFrameComplete /\ i2s.frame = 2 /\ i2s.ws_start = 0
    /\ i2s.bit_count = 8 /\ i2s.left.word = <<0, 171>> /\ i2s.right.word = <<0, 205>>

\* C5: in Mode::LeftJustified word-select is low while each of the N bits of
\* the left word is clocked out and high while each of the N bits of the right
\* word is: it is written before the first bit of either word and nowhere
\* else, and it is high when a write of at least one frame returns Ok.
C5_LeftJustifiedFraming ==
    i2s.mode = "LeftJustified" =>
        /\ (i2s.pc = "left" /\ i2s.sub # "none") => i2s.ws = 0
        /\ (i2s.pc = "right" /\ i2s.sub # "none") => i2s.ws = 1
        /\ I2SFrameComplete =>
              LET second == 5 * i2s.bit_count + 2 IN
              /\ { k \in 1 .. Len(i2s.trace) : i2s.trace[k][1] = "ws" } = {1, second}
              /\ i2s.trace[1] = <<"ws", 0>>
              /\ i2s.trace[second] = <<"ws", 1>>
              /\ BitsBefore(second) = i2s.bit_count
              /\ BitsBefore(Len(i2s.trace) + 1) = 2 * i2s.bit_count
              /\ i2s.ws = 1

\* C5 witness: a write of two 16-bit frames in Mode::LeftJustified has returned Ok
C5_Witness ==
    /\ i2s.mode = "LeftJustified" /\ i2s.pc = "idle" /\ i2s.res = "Ok"
    /\ i2s.frame = 2 /\ i2s.bit_count = 16

\* C6: the k-th call of next() on a stream over a word of N bits returns
\* Some(bit N-k of the word) for k = 1 .. N and None for every k > N.
C6_MsbFirstStream ==
    \A k \in 1 .. Len(obs.out) :
        obs.out[k] = IF k <= obs.s.bit_count
                     THEN <<WordBit(obs.s.word, obs.s.bit_count - k)>>
                     ELSE <<>>

\* C6 witness: next() has been called 34 times on a stream over 0xABCDEF01
C6_Witness ==
    /\ obs.s.word = <<43981, 61185>> /\ obs.s.bit_count = 32
    /\ Len(obs.out) = 34

\* C7: the events of a send are, bit after bit, the MOSI write followed by the
\* five events in the order of the mode; a send that returns Ok has performed
\* 8 such groups: 16 timer waits and 8 MISO samples.
C7_EventOrder ==
    spi.op = "send" =>
        /\ \A i \in 1 .. Len(spi.trace) :
              C7_Kind(spi.trace[i]) = (<<"mosi">> \o C7_Order(spi.mode))[((i - 1) % 6) + 1]
        /\ spi.res = "Ok" =>
              /\ Len(spi.trace) = 48
              /\ Count(spi.trace, "wait") = 16
              /\ Count(spi.trace, "miso") = 8

\* C7 witness: a mode 1 send has returned Ok
C7_Witness == SPISendOk /\ spi.mode = "MODE_1"

\* C8: after construction and after every send that returned Ok, the clock is
\* at the idle level of the mode's polarity.
C8_ClockIdle ==
    (spi.pc = "idle" /\ (spi.op = "none" \/ spi.res = "Ok")) => spi.sck = IdleLevel(spi.mode)

\* C9: the MOSI levels of send(b) under LSBFirst are the reversal of the MOSI
\* levels of send(b) under MSBFirst; MSBFirst drives bit 7 first.
C9_BitOrderReversal ==
    /\ (SPISendOk /\ spi.send_order = "LSBFirst" /\ spi.msb_sent # <<>>
          /\ spi.msb_sent[1] = spi.byte) =>
             LevelsOf(spi.trace, "mosi") = Reverse(spi.msb_sent[2])
    /\ (SPISendOk /\ spi.send_order = "MSBFirst") =>
             LevelsOf(spi.trace, "mosi") = MsbFirstLevels(spi.byte)

\* C9 witness: 0xA6 has been sent under MSBFirst and then under LSBFirst
C9_Witness ==
    /\ SPISendOk /\ spi.send_order = "LSBFirst" /\ spi.byte = 166
    /\ spi.msb_sent # <<>> /\ spi.msb_sent[1] = 166

\* the level of the j-th tick of the frame of b: start bit, b's bits from bit 0
\* up, stop bit
C10_FrameLevel(b, j) == IF j = 1 THEN 0 ELSE IF j = 10 THEN 1 ELSE BitAt(b, j - 2)

\* C10: write(b) that returns Ok has driven TX through low, bit 0 .. bit 7 of b,
\* high, each level followed by one timer wait: 10 waits in all, TX left high.
C10_WriteFrame ==
    SerialWriteOk =>
        /\ serial.trace = [k \in 1 .. 20 |->
                             IF k % 2 = 0 THEN <<"wait", 0>>
                             ELSE <<"tx", C10_FrameLevel(serial.byte, (k + 1) \div 2)>>]
        /\ Count(serial.trace, "wait") = 10
        /\ serial.tx = 1

\* C10 witness: write(0xA6) has returned Ok
C10_Witness == SerialWriteOk /\ serial.byte = 166

\* the events of the frame on the data and clock pins and the timer, in order
I2SBitEvents == SelectSeq(i2s.trace, LAMBDA e : e[1] # "ws")

\* C11: in both modes every bit is sent as: SD driven to the bit, one timer
\* wait, SCK high, one timer wait, SCK low; a frame of width N sends 2N bits,
\* the N bits of the left word and then the N bits of the right word, each from
\* bit N-1 down to bit 0, with 4N timer waits; SCK is low when a write of at
\* least one frame returns Ok.
C11_BitPrimitive ==
    LET ev == I2SBitEvents
        N  == i2s.bit_count
    IN  /\ \A k \in 1 .. Len(ev) :
              CASE (k - 1) % 5 = 0 -> ev[k][1] = "sd"
                [] (k - 1) % 5 = 1 -> ev[k] = <<"wait", 0>>
                [] (k - 1) % 5 = 2 -> ev[k] = <<"sck", 1>>
                [] (k - 1) % 5 = 3 -> ev[k] = <<"wait", 0>>
                [] (k - 1) % 5 = 4 -> ev[k] = <<"sck", 0>>
        /\ I2SFrameComplete =>
              /\ Len(ev) = 5 * 2 * N
              /\ \A b \in 1 .. 2 * N :
                    ev[5 * (b - 1) + 1][2] = IF b <= N THEN WordBit(i2s.left.word, N - b)
                                             ELSE WordBit(i2s.right.word, 2 * N - b)
              /\ Count(i2s.trace, "wait") = 4 * N
        /\ (i2s.pc = "idle" /\ i2s.res = "Ok" /\ i2s.frame >= 1) => i2s.sck = 0

\* C11 witness: a write of one 32-bit frame, 0xABCDEF01 left and 1 right, has
\* returned Ok in Mode::I2s
C11_Witness ==
    /\ i2s.mode = "I2s" /\ i2s.pc = "idle" /\ i2s.res = "Ok" /\ i2s.frame = 1
    /\ i2s.bit_count = 32 /\ i2s.left.word = <<43981, 61185>> /\ i2s.right.word = <<0, 1>>
    /\ Len(I2SBitEvents) = 320

\* C12: in Serial write, Serial read, SPI send and I2S write the step in which
\* a pin operation fails ends the call with the Bus/Pin error and does nothing
\* else: no pin is written, nothing is sampled, no timer wait is made and what
\* was emitted before stays as it was; a call that has returned does nothing
\* more, the pins and the record of events change again only when the next call
\* begins; an error is never the result of a call that is still running.
C12_FailureEndsTransfer ==
    [][ /\ (serial.pc # "idle" /\ serial'.res = "Bus") =>
              /\ serial'.pc = "idle"
              /\ serial'.trace = serial.trace
              /\ serial'.tx = serial.tx /\ serial'.data_in = serial.data_in
              /\ Len(serial.trace) < (IF serial.op = "write" THEN 20
                                       ELSE Count(serial.trace, "poll") + 18)
        /\ spi'.errs > spi.errs =>
              /\ spi'.pc = "idle" /\ spi'.res = "Bus"
              /\ spi'.trace = spi.trace
              /\ spi'.sck = spi.sck /\ spi'.mosi = spi.mosi /\ spi'.read_val = spi.read_val
        /\ (i2s.pc # "idle" /\ i2s'.res = "Pin") =>
              /\ i2s'.pc = "idle"
              /\ i2s'.trace = i2s.trace
              /\ i2s'.sck = i2s.sck /\ i2s'.ws = i2s.ws /\ i2s'.sd = i2s.sd
        /\ (serial.pc = "idle" /\ serial' # serial) =>
              (serial'.pc # "idle" /\ serial'.trace = <<>> /\ serial'.tx = serial.tx)
        /\ (spi.pc = "idle" /\ spi'.trace # spi.trace) =>
              (spi'.pc = "mosi" /\ spi'.trace = <<>>)
        /\ spi.pc = "idle" =>
              (spi'.sck = spi.sck /\ spi'.mosi = spi.mosi /\ spi'.read_val = spi.read_val)
        /\ (i2s.pc = "idle" /\ i2s' # i2s) =>
              /\ i2s'.pc = "zip" /\ i2s'.trace = <<>>
              /\ i2s'.sck = i2s.sck /\ i2s'.ws = i2s.ws /\ i2s'.sd = i2s.sd
        /\ serial'.res = "Bus" => serial'.pc = "idle"
        /\ spi'.res = "Bus" => spi'.pc = "idle"
        /\ i2s'.res = "Pin" => i2s'.pc = "idle"
      ]_vars

\* C12 witness: a send has returned Err(Bus) from the MISO sample of its third
\* bit; the 15 events before it are on record
C12_Witness ==
    /\ spi.pc = "idle" /\ spi.op = "send" /\ spi.res = "Bus" /\ spi.errs = 1
    /\ spi.mode = "MODE_1" /\ spi.bit = 2 /\ spi.step = 3 /\ Len(spi.trace) = 15

\* C13: a pin operation that fails is reported to the caller as a Bus error and
\* never dropped: a driver that new() has handed out (new() reports no error)
\* has had no failure of its clock-pin write, and a send that did not return Ok
\* returned Err(Bus).
C13_PinFailureReported ==
    /\ spi.op = "none" => spi.new_ok
    /\ (spi.pc = "idle" /\ spi.op = "send" /\ spi.res # "Ok") => spi.res = "Bus"

\* the kind of the k-th event of a Serial call that runs to its end: a write is
\* 10 times TX write and wait; a read is its polls of RX, a wait, 8 times
\* sample and wait, and a wait
C14_SerialKind(k) ==
    IF serial.op = "write" THEN (IF k % 2 = 1 THEN "tx" ELSE "wait")
    ELSE LET p == Count(serial.trace, "poll")
             j == k - p
         IN  IF k <= p \/ p = 0 \/ serial.trace[p] = <<"poll", 1>> THEN "poll"
             ELSE IF j = 1 \/ j = 18 THEN "wait"
             ELSE IF j % 2 = 0 THEN "rx" ELSE "wait"

\* the kind of the k-th event of a send that runs to its end
C14_SPIKind(k) == (<<"mosi">> \o ModeArm(spi.mode))[((k - 1) % 6) + 1]

\* C14: a Serial write, a Serial read and an SPI send in which a timer wait has
\* reported an error go on as they do when every tick elapses: the same events
\* in the same order, ended before the last only by a pin operation that fails
\* (never by the wait), and Ok with the whole sequence done, the byte received
\* being the 8 levels sampled.  In an I2S write a timer wait that reports an
\* error is the end of the program: the write has returned neither Ok nor
\* Err(Pin), it stopped at a wait, and no step of the driver follows.
C14_TimerPolicy ==
    /\ (serial.terr /\ serial.op # "none") =>
          /\ \A k \in 1 .. Len(serial.trace) : serial.trace[k][1] = C14_SerialKind(k)
          /\ serial.res = "Bus" => C14_SerialKind(Len(serial.trace) + 1) # "wait"
          /\ serial.res = "Ok" =>
                /\ Len(serial.trace) =
                      IF serial.op = "write" THEN 20 ELSE Count(serial.trace, "poll") + 18
                /\ serial.op = "read" =>
                      serial.val = ByteOfLevels(LevelsOf(serial.trace, "rx"))
    /\ spi.terr =>
          /\ \A k \in 1 .. Len(spi.trace) :
                spi.trace[k][1] = (IF C14_SPIKind(k) \in {"sck_high", "sck_low"} THEN "sck"
                                   ELSE IF C14_SPIKind(k) = "read_bit" THEN "miso"
                                   ELSE C14_SPIKind(k))
          /\ spi.res = "Bus" => C14_SPIKind(Len(spi.trace) + 1) # "wait"
          /\ spi.res = "Ok" =>
                /\ Len(spi.trace) = 48
                /\ spi.read_val = <<ByteOfLevels(LevelsOf(spi.trace, "miso"))>>
          /\ spi.res = "none" => spi.pc # "idle"
    /\ i2s.pc = "panic" =>
          /\ i2s.res = "none"
          /\ Len(I2SBitEvents) % 5 \in {1, 3}
          /\ ~ENABLED I2SNext

\* C14 witness: a send in which a timer wait reported an error has returned Ok
\* with its 48 events
C14_Witness == SPISendOk /\ spi.terr /\ Len(spi.trace) = 48 /\ spi.mode = "MODE_2"

\* the smaller of two numbers
Min(a, b) == IF a < b THEN a ELSE b

\* the frames of an I2S write, in every state
C15_Frames ==
    LET N == i2s.bit_count IN
    /\ i2s.frame <= Min(i2s.llen, i2s.rlen)
    /\ i2s.pc \in {"ws_low", "left", "ws_high", "left_last", "right", "ws_low2", "right_last"} =>
          /\ i2s.frame < Min(i2s.llen, i2s.rlen)
          /\ i2s.left.word = i2s.left_words[i2s.frame + 1]
          /\ i2s.right.word = i2s.right_words[i2s.frame + 1]
    /\ I2SFrameComplete =>
          LET sd == LevelsOf(i2s.trace, "sd") IN
          /\ Len(sd) = 2 * N
          /\ \A b \in 1 .. N :
                /\ sd[b] = WordBit(i2s.left_words[i2s.frame], N - b)
                /\ sd[N + b] = WordBit(i2s.right_words[i2s.frame], N - b)
    /\ (i2s.pc = "idle" /\ i2s.res = "Ok") =>
          /\ i2s.frame = Min(i2s.llen, i2s.rlen)
          /\ i2s.frame = 0 => i2s.trace = <<>>

\* C15: an I2S write sends the i-th left word and the i-th right word together
\* as its i-th frame, one frame after the other in the order of the inputs, and
\* returns Ok when it has sent as many frames as the shorter input has words; a
\* write of an empty input returns Ok with no pin operation and no timer wait.
C15_FramesInOrder ==
    /\ []C15_Frames
    /\ [][
        /\ i2s'.frame # i2s.frame =>
              \/ i2s.pc = "idle" /\ i2s'.pc = "zip" /\ i2s'.frame = 0
              \/ i2s'.frame = i2s.frame + 1 /\ i2s'.pc = "zip" /\ I2SFrameComplete'
        /\ (i2s.pc = "zip" /\ i2s'.pc = "idle") =>
              (i2s'.res = "Ok" /\ i2s'.trace = i2s.trace
               /\ i2s'.sck = i2s.sck /\ i2s'.ws = i2s.ws /\ i2s'.sd = i2s.sd)
      ]_vars

\* C15 witness: a write of two left words and one right word has returned Ok
\* after one frame
C15_Witness ==
    /\ i2s.pc = "idle" /\ i2s.res = "Ok" /\ i2s.llen = 2 /\ i2s.rlen = 1 /\ i2s.frame = 1
    /\ i2s.bit_count = 16 /\ Len(LevelsOf(i2s.trace, "sd")) = 32

\* C16: a read polls RX, with no timer wait, until a poll finds it low; then
\* come one wait, 8 times a sample followed by a wait, and one more wait: 10
\* waits and 8 samples; it returns Ok(r), r being the 8 sampled levels, the first
\* in bit 7 and the last in bit 0.  Nothing else is looked at: the read returns
\* Ok whatever the 8 levels are and whatever the line carries where the stop bit
\* belongs.
C16_ReadFrame ==
    LET p == Count(serial.trace, "poll") IN
    /\ (serial.op = "read" /\ serial.pc = "r_poll") =>
          /\ Len(serial.trace) = p
          /\ \A k \in 1 .. p : serial.trace[k] = <<"poll", 1>>
    /\ (serial.op = "read" /\ serial.pc \notin {"r_poll", "idle"}) =>
          /\ p >= 1
          /\ \A k \in 1 .. p - 1 : serial.trace[k] = <<"poll", 1>>
          /\ serial.trace[p] = <<"poll", 0>>
    /\ SerialReadOk =>
          /\ p >= 1
          /\ \A k \in 1 .. p - 1 : serial.trace[k] = <<"poll", 1>>
          /\ serial.trace[p] = <<"poll", 0>>
          /\ Len(serial.trace) = p + 18
          /\ \A j \in 1 .. 18 :
                serial.trace[p + j][1] = IF j = 1 \/ j = 18 THEN "wait"
                                         ELSE IF j % 2 = 0 THEN "rx" ELSE "wait"
          /\ Count(serial.trace, "wait") = 10
          /\ Count(serial.trace, "rx") = 8
          /\ serial.val = ByteOfLevels(LevelsOf(serial.trace, "rx"))
          /\ ~serial.loopback =>
                LevelsOf(serial.trace, "rx") = SubSeq(serial.line, 2, 9)

\* C16 witness: after two polls that found RX high, a read of a peer's frame
\* with the levels 1,0,0,0,0,0,0,0 and a low line where the stop bit belongs
\* has returned Ok(0x80)
C16_Witness ==
    /\ SerialReadOk /\ ~serial.loopback /\ serial.line = <<0, 1, 0, 0, 0, 0, 0, 0, 0, 0>>
    /\ Count(serial.trace, "poll") = 3 /\ serial.val = 128

\* RX is low once the polls that find the line idle have passed
C17_RxGoesLow == serial.line # <<>> /\ serial.line[1] = 0

\* C17: with the timer ticking, a Serial write, an SPI send and an I2S write
\* that are under way come to their end (Ok or a pin error; for I2S, the panic
\* of C14 if the timer reports an error); a Serial read under way comes to its
\* end when RX goes low; a read returns Ok only after a poll that found RX low,
\* and while RX stays high the read stays in its poll loop, which only a pin
\* error ends.
C17_Termination ==
    /\ (Running /\ ~(serial.op = "read" /\ ~C17_RxGoesLow)) ~> ~Running
    /\ [](SerialReadOk => \E k \in 1 .. Len(serial.trace) : serial.trace[k] = <<"poll", 0>>)
    /\ [][ (serial.pc = "r_poll" /\ serial.idle = 0 /\ ~C17_RxGoesLow) =>
              (serial' = serial \/ (serial'.pc = "idle" /\ serial'.res = "Bus")) ]_vars

\* C17 witness: a read is in its poll loop on a line that stays high
C17_Witness ==
    /\ serial.op = "read" /\ serial.pc = "r_poll" /\ serial.idle = 0 /\ ~C17_RxGoesLow
    /\ Len(serial.trace) = 2

\* the events of the send other than the MOSI writes, in order
C18_Others == SelectSeq(spi.trace, LAMBDA e : e[1] # "mosi")

\* what a send that returned Ok has done besides writing MOSI
C18_SendBesidesMosi ==
    SPISendOk =>
        /\ \A k \in 1 .. 48 : (spi.trace[k][1] = "mosi") <=> (k % 6 = 1)
        /\ Len(C18_Others) = 40
        /\ \A k \in 1 .. 40 :
              C7_Kind(C18_Others[k]) = C7_Order(spi.mode)[((k - 1) % 5) + 1]
        /\ LevelsOf(spi.trace, "miso") = spi.miso
        /\ spi.read_val = <<ByteOfLevels(spi.miso)>>

\* C18: what a send does besides writing MOSI is fixed by the mode and by the
\* levels on MISO: under MSBFirst and under LSBFirst alike the MOSI writes are
\* the first of every 6 events, the clock writes, timer waits and MISO samples
\* between them are those of the mode, and the byte left in the register is the
\* 8 sampled levels, the first in bit 7.  set_bit_order changes the bit order
\* and nothing else.
C18_BitOrderOnlyMosi ==
    /\ []C18_SendBesidesMosi
    /\ [][ spi'.bit_order # spi.bit_order =>
              (spi.pc = "idle" /\ spi' = [spi EXCEPT !.bit_order = spi'.bit_order]) ]_vars
    /\ [][ (spi.pc = "idle" /\ spi'.pc = "idle") =>
              (spi'.read_val = spi.read_val /\ spi'.sck = spi.sck /\ spi'.mosi = spi.mosi) ]_vars

\* C18 witness: a mode 3 send of 0xA6 under LSBFirst has returned Ok, after a
\* send of 0xA6 under MSBFirst
C18_Witness ==
    /\ SPISendOk /\ spi.mode = "MODE_3" /\ spi.send_order = "LSBFirst" /\ spi.byte = 166
    /\ spi.msb_sent # <<>> /\ spi.msb_sent[1] = 166
    /\ spi.miso = <<1, 0, 1, 1, 0, 0, 1, 0>>

\* C19: the cursor of a bit stream is between 0 and bit_count in every state.
\* Of a stream on its own: the cursor is the number of bits handed out, 0 as
\* constructed, one more with each call that returns a bit, and as it is after
\* a call made when it has reached bit_count.  In an I2S write: the streams of
\* both words of a frame begin at 0, together they have handed out as many bits
\* as the frame has sent (one more when a bit is fetched and not yet driven),
\* and both are at bit_count when the frame is complete.
C19_CursorInvariant ==
    /\ obs.s.bit_offset \in 0 .. obs.s.bit_count
    /\ obs.s.bit_offset = Min(Len(obs.out), obs.s.bit_count)
    /\ obs.s.bit_offset = Cardinality({ k \in 1 .. Len(obs.out) : obs.out[k] # <<>> })
    /\ i2s.left.bit_offset \in 0 .. i2s.left.bit_count
    /\ i2s.right.bit_offset \in 0 .. i2s.right.bit_count
    /\ i2s.pc \notin {"idle", "zip", "panic"} =>
          /\ i2s.left.bit_count = i2s.bit_count /\ i2s.right.bit_count = i2s.bit_count
          /\ i2s.left.bit_offset + i2s.right.bit_offset =
                Count(i2s.trace, "sd") + (IF i2s.sub = "sd" THEN 1 ELSE 0)
          /\ i2s.right.bit_offset > 0 => i2s.left.bit_offset = i2s.bit_count
    /\ i2s.pc = "ws_low" => (i2s.left.bit_offset = 0 /\ i2s.right.bit_offset = 0)
    /\ I2SFrameComplete =>
          (i2s.left.bit_offset = i2s.bit_count /\ i2s.right.bit_offset = i2s.bit_count)

\* C19 witness: next() has been called 18 times on a stream of 16 bits, whose
\* cursor is at 16
C19_Witness ==
    /\ obs.s.bit_count = 16 /\ obs.s.word = <<0, 4660>>
    /\ Len(obs.out) = 18 /\ obs.s.bit_offset = 16

\* C20: on a driver whose construction drove the clock and none of whose pin
\* operations has failed, a step that writes MOSI is taken with SCK at the idle
\* level of the mode, and a step that samples MISO with SCK at the other level,
\* after the leading and before the trailing clock write of that bit.
C20_EdgeDiscipline ==
    [][ (spi.new_ok /\ spi.errs = 0 /\ spi'.errs = 0
         /\ Len(spi'.trace) = Len(spi.trace) + 1) =>
           LET e == spi'.trace[Len(spi'.trace)] IN
           /\ e[1] = "mosi" =>
                 /\ spi.sck = IdleLevel(spi.mode)
                 /\ Count(spi.trace, "sck") = 2 * spi.bit
           /\ e[1] = "miso" =>
                 /\ spi.sck # IdleLevel(spi.mode)
                 /\ Count(spi.trace, "sck") = 2 * spi.bit + 1
      ]_vars

\* C20 witness: on such a driver in mode 2 a send under LSBFirst has returned
\* Ok, after a send under MSBFirst that returned Ok
C20_Witness ==
    /\ spi.new_ok /\ spi.errs = 0 /\ SPISendOk /\ spi.mode = "MODE_2"
    /\ spi.send_order = "LSBFirst" /\ spi.msb_sent # <<>>

====
